---- MODULE Spec2Model ----
(***************************************************************************)
(* Model of mandelterm: the View grid (src/view.rs) and the Complex pair   *)
(* (src/complex.rs).                                                       *)
(*                                                                         *)
(* Rust Option values are sequences of length 0 (None) or 1 (Some(v)).     *)
(* A panic aborts the program: the variable panic holds its kind and every *)
(* operation is disabled afterwards.  u16 arithmetic panics on overflow    *)
(* when the build has overflow checks (debug) and wraps otherwise          *)
(* (release); overflow_checks is the build.                                *)
(***************************************************************************)
EXTENDS Integers, Sequences, FiniteSets, TLC

VARIABLES width, height, symbol_off, symbol_on, buffer,
          overflow_checks, panic, last,
          it_active, it_x, it_y, it_ended, yielded,
          ca, cb, cres

viewVars == <<width, height, symbol_off, symbol_on, buffer,
              overflow_checks, panic, last,
              it_active, it_x, it_y, it_ended, yielded>>
complexVars == <<ca, cb, cres>>
vars == <<width, height, symbol_off, symbol_on, buffer,
          overflow_checks, panic, last,
          it_active, it_x, it_y, it_ended, yielded, ca, cb, cres>>

----------------------------------------------------------------------------
(* Bounds *)

MaxWidth == 3
MaxHeight == 2
OverflowDim == 256
MaxComp == 7
MaxExp == 3

(* u16 holds 0 .. U16 - 1 *)
U16 == 65536

XCoord == 0..MaxWidth
YCoord == 0..MaxHeight
Dims == (0..MaxWidth) \X (0..MaxHeight)
DimsU16 == Dims \cup {<<OverflowDim, OverflowDim>>}
MaxCalls == MaxWidth * MaxHeight + 2

LIGHT_SHADE == "LIGHT SHADE"
FULL_BLOCK == "FULL BLOCK"
Chars == {LIGHT_SHADE, FULL_BLOCK}
NEWLINE == "\n"

None == <<>>
Some(v) == <<v>>

NoPanic == "none"
Overflow == "attempt to compute with overflow"
OutOfRange == "index out of bounds"

----------------------------------------------------------------------------
(* View *)

(* the operation called last and what it returned *)
Result(name, r) == [op |-> name, ret |-> r]

NoOp(name) == Result(name, <<>>)

new_overflows(w, h) == w * h >= U16

new_buffer(w, h) == [i \in 1..((w * h) % U16) |-> FALSE]

index_one_based(x, y) == (y * height + x + 1) % U16

index_row_width(x, y) == (y * width + x) % U16

index(x, y) == (y * height + x) % U16

index_overflows(x, y) == y * height + x >= U16

bounds_check(x, y) == x < width /\ y < height

checked_index(x, y) == IF bounds_check(x, y) THEN Some(index(x, y)) ELSE None

checked_index_panics(x, y) ==
    bounds_check(x, y) /\ overflow_checks /\ index_overflows(x, y)

at_panic(x, y) ==
    IF checked_index_panics(x, y) THEN Overflow
    ELSE IF checked_index(x, y) # None /\ checked_index(x, y)[1] >= Len(buffer)
         THEN OutOfRange
         ELSE NoPanic

at(x, y) ==
    IF checked_index(x, y) = None \/ at_panic(x, y) # NoPanic THEN None
    ELSE Some(buffer[checked_index(x, y)[1] + 1])

(* ViewIter::next at position (x, y): the item, without the advance *)
next_val(x, y) ==
    IF checked_index(x, y) = None THEN None
    ELSE IF checked_index(x, y)[1] >= Len(buffer) THEN None
         ELSE Some(<<x, y, buffer[checked_index(x, y)[1] + 1]>>)

next_x(x) == IF (x + 1) % U16 = width THEN 0 ELSE (x + 1) % U16

next_y(x, y) == IF (x + 1) % U16 = width THEN (y + 1) % U16 ELSE y

next_panic(x, y) ==
    IF checked_index_panics(x, y) THEN Overflow
    ELSE IF overflow_checks /\ x + 1 >= U16 THEN Overflow
    ELSE IF overflow_checks /\ (x + 1) % U16 = width /\ y + 1 >= U16 THEN Overflow
    ELSE NoPanic

RECURSIVE fmt_loop(_, _, _)
fmt_loop(x, y, buf) ==
    IF next_val(x, y) = None THEN buf
    ELSE fmt_loop(next_x(x), next_y(x, y),
                  LET pushed == Append(buf, IF next_val(x, y)[1][3]
                                            THEN symbol_on ELSE symbol_off)
                  IN IF x = width - 1 THEN Append(pushed, NEWLINE) ELSE pushed)

fmt_panic ==
    IF overflow_checks /\ (width + 1 >= U16 \/ height * (width + 1) >= U16)
    THEN Overflow ELSE NoPanic

fmt == IF fmt_panic # NoPanic THEN <<>> ELSE fmt_loop(0, 0, <<>>)

InitView(D) ==
    /\ overflow_checks \in BOOLEAN
    /\ \E d \in D :
         /\ width = d[1]
         /\ height = d[2]
         /\ buffer = IF overflow_checks /\ new_overflows(d[1], d[2])
                     THEN <<>> ELSE new_buffer(d[1], d[2])
         /\ panic = IF overflow_checks /\ new_overflows(d[1], d[2])
                    THEN Overflow ELSE NoPanic
    /\ symbol_off = LIGHT_SHADE
    /\ symbol_on = FULL_BLOCK
    /\ last = NoOp("new")
    /\ it_active = FALSE
    /\ it_x = 0
    /\ it_y = 0
    /\ it_ended = FALSE
    /\ yielded = <<>>

SetSymbols(off, on) ==
    /\ panic = NoPanic
    /\ ~it_active
    /\ symbol_off' = off
    /\ symbol_on' = on
    /\ last' = NoOp("set_symbols")
    /\ UNCHANGED <<width, height, buffer, overflow_checks, panic,
                   it_active, it_x, it_y, it_ended, yielded>>

At(x, y) ==
    /\ panic = NoPanic
    /\ panic' = at_panic(x, y)
    /\ last' = Result("at", at(x, y))
    /\ UNCHANGED <<width, height, symbol_off, symbol_on, buffer, overflow_checks,
                   it_active, it_x, it_y, it_ended, yielded>>

Set(x, y, value) ==
    /\ panic = NoPanic
    /\ ~it_active
    /\ panic' = at_panic(x, y)
    /\ buffer' = IF checked_index(x, y) # None /\ at_panic(x, y) = NoPanic
                 THEN [buffer EXCEPT ![checked_index(x, y)[1] + 1] = value]
                 ELSE buffer
    /\ last' = Result("set", IF at_panic(x, y) # NoPanic THEN <<>>
                              ELSE <<checked_index(x, y) # None>>)
    /\ UNCHANGED <<width, height, symbol_off, symbol_on, overflow_checks,
                   it_active, it_x, it_y, it_ended, yielded>>

Iter ==
    /\ panic = NoPanic
    /\ ~it_active
    /\ it_active' = TRUE
    /\ it_x' = 0
    /\ it_y' = 0
    /\ it_ended' = FALSE
    /\ yielded' = <<>>
    /\ last' = NoOp("iter")
    /\ UNCHANGED <<width, height, symbol_off, symbol_on, buffer,
                   overflow_checks, panic>>

IterNext ==
    /\ panic = NoPanic
    /\ it_active
    /\ it_y * width + it_x < MaxCalls
    /\ panic' = next_panic(it_x, it_y)
    /\ IF next_panic(it_x, it_y) # NoPanic
       THEN /\ last' = NoOp("next")
            /\ UNCHANGED <<it_x, it_y, it_ended, yielded>>
       ELSE /\ last' = Result("next", next_val(it_x, it_y))
            /\ it_x' = next_x(it_x)
            /\ it_y' = next_y(it_x, it_y)
            /\ it_ended' = (it_ended \/ next_val(it_x, it_y) = None)
            /\ yielded' = IF ~it_ended /\ next_val(it_x, it_y) # None
                          THEN Append(yielded, next_val(it_x, it_y)[1])
                          ELSE yielded
    /\ UNCHANGED <<width, height, symbol_off, symbol_on, buffer,
                   overflow_checks, it_active>>

IterDrop ==
    /\ panic = NoPanic
    /\ it_active
    /\ it_active' = FALSE
    /\ it_x' = 0
    /\ it_y' = 0
    /\ it_ended' = FALSE
    /\ yielded' = <<>>
    /\ last' = NoOp("drop")
    /\ UNCHANGED <<width, height, symbol_off, symbol_on, buffer,
                   overflow_checks, panic>>

Fmt ==
    /\ panic = NoPanic
    /\ panic' = fmt_panic
    /\ last' = Result("fmt", fmt)
    /\ UNCHANGED <<width, height, symbol_off, symbol_on, buffer, overflow_checks,
                   it_active, it_x, it_y, it_ended, yielded>>

NextView ==
    \/ \E x \in XCoord, y \in YCoord : At(x, y)
    \/ \E x \in XCoord, y \in YCoord, value \in BOOLEAN : Set(x, y, value)
    \/ Iter
    \/ IterNext
    \/ IterDrop

NextRender ==
    \/ \E off \in Chars, on \in Chars : SetSymbols(off, on)
    \/ \E x \in XCoord, y \in YCoord : At(x, y)
    \/ \E x \in XCoord, y \in YCoord, value \in BOOLEAN : Set(x, y, value)
    \/ Fmt

----------------------------------------------------------------------------
(* Complex<T>, T = f32 on the integers f32 represents exactly *)

(* every integer of magnitude up to 2^24 is an f32, and f32 arithmetic on
   such integers is exact while the result stays in that range *)
ExactF32 == 16777216

Comp == (-MaxComp)..MaxComp
Pair == Comp \X Comp

Abs(c) == IF c < 0 THEN -c ELSE c

add(a, b) == <<a[1] + b[1], a[2] + b[2]>>

sub(a, b) == <<a[1] - b[1], a[2] - b[2]>>

mul_cross(a, b) == <<a[1] * b[1] - a[2] * b[2], a[1] * b[2] + a[2] * b[1]>>

mul(a, b) == <<a[1] * b[1], a[2] * b[2]>>

RECURSIVE powi_loop(_, _, _)
powi_loop(real, imaginary, i) ==
    IF i <= 0 THEN <<real, imaginary>>
    ELSE powi_loop(real * real, imaginary * imaginary, i - 1)

RECURSIVE Times(_, _)
Times(c, k) == IF k <= 0 THEN 1 ELSE c * Times(c, k - 1)

powi_nth(p, n) == <<Times(p[1], n), Times(p[2], n)>>

powi(p, n) == powi_loop(p[1], p[2], n)

(* n squarings of c stay within the exact range *)
RECURSIVE Exact(_, _)
Exact(c, n) ==
    IF n <= 0 \/ c = 0 THEN TRUE
    ELSE IF Abs(c) > ExactF32 \div Abs(c) THEN FALSE
         ELSE Exact(c * c, n - 1)

NoRes == [op |-> "none", n |-> 0, val |-> <<0, 0>>]

InitComplex ==
    /\ ca \in Pair
    /\ cb \in Pair
    /\ cres = NoRes

CAdd ==
    /\ cres' = [op |-> "add", n |-> 0, val |-> add(ca, cb)]
    /\ UNCHANGED <<ca, cb>>

CSub ==
    /\ cres' = [op |-> "sub", n |-> 0, val |-> sub(ca, cb)]
    /\ UNCHANGED <<ca, cb>>

CMul ==
    /\ cres' = [op |-> "mul", n |-> 0, val |-> mul(ca, cb)]
    /\ UNCHANGED <<ca, cb>>

CPowi(n) ==
    /\ Exact(ca[1], n)
    /\ Exact(ca[2], n)
    /\ cres' = [op |-> "powi", n |-> n, val |-> powi(ca, n)]
    /\ UNCHANGED <<ca, cb>>

NextComplex ==
    \/ CAdd
    \/ CSub
    \/ CMul
    \/ \E n \in 0..MaxExp : CPowi(n)

----------------------------------------------------------------------------
(* Specifications *)

(* reads, writes and traversals of grids whose cell count fits in u16 *)
Init == InitView(Dims) /\ ca = <<0, 0>> /\ cb = <<0, 0>> /\ cres = NoRes

Next == NextView /\ UNCHANGED complexVars

Spec == Init /\ [][Next]_vars

(* reads, writes, symbols and rendering of the same grids *)
NextR == NextRender /\ UNCHANGED complexVars

SpecRender == Init /\ [][NextR]_vars

(* the same, with a grid whose cell count does not fit in u16 *)
InitU16 == InitView(DimsU16) /\ ca = <<0, 0>> /\ cb = <<0, 0>> /\ cres = NoRes

SpecU16 == InitU16 /\ [][NextR]_vars

(* the pair operations, next to an empty grid *)
InitC ==
    /\ InitComplex
    /\ width = 0
    /\ height = 0
    /\ buffer = new_buffer(0, 0)
    /\ overflow_checks = FALSE
    /\ panic = NoPanic
    /\ symbol_off = LIGHT_SHADE
    /\ symbol_on = FULL_BLOCK
    /\ last = NoOp("new")
    /\ it_active = FALSE
    /\ it_x = 0
    /\ it_y = 0
    /\ it_ended = FALSE
    /\ yielded = <<>>

NextC == NextComplex /\ UNCHANGED viewVars

SpecComplex == InitC /\ [][NextC]_vars

----------------------------------------------------------------------------
(* Properties *)

InBounds == {c \in (0..(width - 1)) \X (0..(height - 1)) : TRUE}

(* the character of row y, column x in the text fmt produces *)
rendered(x, y) ==
    IF y * (width + 1) + x + 1 <= Len(fmt) THEN fmt[y * (width + 1) + x + 1]
    ELSE "absent"

(* C1: get(x, y) never aborts, and returns a present value exactly when
   x < width and y < height *)
C1_GetTotal ==
    [][\A x \in XCoord : \A y \in YCoord :
          At(x, y) =>
              /\ panic' = NoPanic
              /\ (last'.ret # None) <=> (x < width /\ y < height)]_vars

(* C2: set(x, y, v) returns true exactly when x < width and y < height; when
   it returns true an immediately following get(x, y) returns v; when it
   returns false no cell changes *)
C2_SetContract ==
    [][\A x \in XCoord : \A y \in YCoord : \A v \in BOOLEAN :
          Set(x, y, v) =>
              /\ panic' = NoPanic
              /\ last'.ret = <<(x < width /\ y < height)>>
              /\ last'.ret = <<TRUE>> => at(x, y)' = Some(v)
              /\ last'.ret = <<FALSE>> => buffer' = buffer]_vars

(* C3: a successful set(x, y, v) leaves get and the rendered character of
   every other in-bounds coordinate, the dimensions and both symbols as they
   were *)
C3_SetFrame ==
    [][\A x \in XCoord : \A y \in YCoord : \A v \in BOOLEAN :
          (Set(x, y, v) /\ last'.ret = <<TRUE>>) =>
              /\ width' = width /\ height' = height
              /\ symbol_off' = symbol_off /\ symbol_on' = symbol_on
              /\ \A c \in InBounds :
                    c # <<x, y>> =>
                        /\ at(c[1], c[2])' = at(c[1], c[2])
                        /\ rendered(c[1], c[2])' = rendered(c[1], c[2])]_vars

(* C4: a traversal yields exactly width * height triples before its first
   end-of-sequence result, in row-major order with x fastest, each carrying
   get(x, y) *)
C4_IterComplete ==
    (it_active /\ it_ended) =>
        /\ Len(yielded) = width * height
        /\ \A k \in 1..Len(yielded) :
              /\ yielded[k][1] = (k - 1) % width
              /\ yielded[k][2] = (k - 1) \div width
              /\ at(yielded[k][1], yielded[k][2]) = Some(yielded[k][3])

(* C5: render produces height rows of width symbols, each row followed by a
   line break, the symbol of (x, y) being symbol_on exactly when get(x, y)
   is true *)
C5_RenderRows ==
    last.op = "fmt" =>
        /\ panic = NoPanic
        /\ Len(last.ret) = height * (width + 1)
        /\ \A y \in 0..(height - 1) :
              /\ last.ret[y * (width + 1) + width + 1] = NEWLINE
              /\ \A x \in 0..(width - 1) :
                    last.ret[y * (width + 1) + x + 1] =
                        IF at(x, y) = Some(TRUE) THEN symbol_on ELSE symbol_off

(* C6: create(width, height) succeeds for all 16-bit dimensions with
   width * height cells, all false, and the length stays width * height *)
C6_CreateLength ==
    /\ last.op = "new" => panic = NoPanic
    /\ Len(buffer) = width * height
    /\ last.op = "new" => \A i \in 1..Len(buffer) : buffer[i] = FALSE

(* C7: power(p, n) squares each component n times, so each component c
   becomes c^(2^n); power(p, 0) = p and power(pair(2,5), 1..3) are
   pair(4,25), pair(16,625), pair(256,390625) *)
C7_PowiSquares ==
    cres.op = "powi" =>
        /\ cres.val = <<Times(ca[1], Times(2, cres.n)), Times(ca[2], Times(2, cres.n))>>
        /\ cres.n = 0 => cres.val = ca
        /\ (ca = <<2, 5>> /\ cres.n = 1) => cres.val = <<4, 25>>
        /\ (ca = <<2, 5>> /\ cres.n = 2) => cres.val = <<16, 625>>
        /\ (ca = <<2, 5>> /\ cres.n = 3) => cres.val = <<256, 390625>>

C7_Witness ==
    cres.op = "powi" /\ ca = <<2, 5>> /\ cres.n = 3 /\ cres.val = <<256, 390625>>

(* C8: add, subtract and multiply return the component-wise sum, difference
   and product of the operands, which stay as they were *)
C8_Elementwise ==
    /\ cres.op = "add" => cres.val = <<ca[1] + cb[1], ca[2] + cb[2]>>
    /\ cres.op = "sub" => cres.val = <<ca[1] - cb[1], ca[2] - cb[2]>>
    /\ cres.op = "mul" => cres.val = <<ca[1] * cb[1], ca[2] * cb[2]>>
    /\ (cres.op = "mul" /\ ca = <<2, 5>> /\ cb = <<7, 2>>) => cres.val = <<14, 10>>

C8_Witness ==
    cres.op = "mul" /\ ca = <<2, 5>> /\ cb = <<7, 2>> /\ cres.val = <<14, 10>>

(* some in-bounds coordinate has an index out of range or shared with
   another in-bounds coordinate *)
IndexDefect ==
    \E c \in InBounds :
        \/ index(c[1], c[2]) >= Len(buffer)
        \/ \E d \in InBounds : d # c /\ index(d[1], d[2]) = index(c[1], c[2])

(* a successful set(x, y, v) writes the cell y * height + x *)
WritesRowTimesHeight ==
    last' = Result("set", <<TRUE>>) =>
        \A x \in XCoord : \A y \in YCoord : \A v \in BOOLEAN :
            Set(x, y, v) => buffer' = [buffer EXCEPT ![y * height + x + 1] = v]

(* C9 as stated: the cell of (x, y) is y * height + x, and every non-square
   grid has an in-bounds coordinate whose index is out of range or shared *)
C9_Original ==
    /\ [][WritesRowTimesHeight]_vars
    /\ [](width # height => IndexDefect)

(* C9 amended: the cell of (x, y) is y * height + x, and every non-square
   grid with width >= 1 and height >= 2 has an in-bounds coordinate whose
   index is out of range or shared *)
C9_IndexDefect ==
    /\ [][WritesRowTimesHeight]_vars
    /\ []((width # height /\ width >= 1 /\ height >= 2) => IndexDefect)

(* on the 3 x 2 grid one write is read back at (2, 0) and at (0, 1) *)
C9_Witness ==
    /\ width = 3 /\ height = 2
    /\ last = Result("set", <<TRUE>>)
    /\ buffer = <<FALSE, FALSE, TRUE, FALSE, FALSE, FALSE>>
    /\ at(2, 0) = Some(TRUE)
    /\ at(0, 1) = Some(TRUE)

(* C10: when width >= height and width * height fits in 16 bits, every
   in-bounds index is y * height + x < length, so no operation accesses a
   cell out of range; and on a square grid the indices of the in-bounds
   coordinates are distinct and cover 0 .. width * height - 1 *)
C10_WideGridSafe ==
    (width >= height /\ width * height < U16) =>
        /\ panic # OutOfRange
        /\ \A c \in InBounds :
              /\ index(c[1], c[2]) = c[2] * height + c[1]
              /\ index(c[1], c[2]) < Len(buffer)
        /\ width = height =>
              /\ \A c \in InBounds : \A d \in InBounds :
                    c # d => index(c[1], c[2]) # index(d[1], d[2])
              /\ {index(c[1], c[2]) : c \in InBounds} = 0..(width * height - 1)

(* the last cell of a square grid, written and read back *)
C10_Witness ==
    /\ width = height /\ width >= 2
    /\ last = Result("set", <<TRUE>>)
    /\ panic = NoPanic
    /\ buffer[width * height]
    /\ at(width - 1, height - 1) = Some(TRUE)

====
